---- MODULE Spec2Model ----
(***************************************************************************)
(* PixelPushupAPI: the /pushup handler of src/main.py with the helpers of  *)
(* src/helpers.py and the configuration class of src/config.py.            *)
(*                                                                         *)
(* Text values (file names, form fields, keys, archive entry names) are    *)
(* sequences of one-character strings, so that splitext, lower, strip,     *)
(* the two regular expressions and posixpath.join are computed character   *)
(* by character, as the code computes them.                                *)
(*                                                                         *)
(* Library behaviour the handler relies on (Pillow >= 7, zipfile, boto3):  *)
(*  - Image.convert returns a NEW image whose `format` attribute is None;  *)
(*  - Image.save(buffer, format=None) on a buffer without a name raises    *)
(*    ValueError("unknown file extension");                                *)
(*  - Image.thumbnail keeps the aspect ratio, never enlarges, and rounds   *)
(*    the computed side to the neighbour integer that is nearer to the     *)
(*    source's aspect ratio (at least 1);                                  *)
(*  - ZipFile.writestr appends an entry (duplicate names are kept);        *)
(*  - reading an attribute a class does not define raises AttributeError.  *)
(***************************************************************************)
EXTENDS Integers, Sequences, FiniteSets, TLC

VARIABLES
    pc,              \* position of the handler: "request", "precheck", "open",
                     \* "original", "tiers", "append", "done"
    form,            \* request.form: the raw fields Processing-Mode, Export-Type, S3_Prefix
    nImages,         \* len(request.files.getlist('images'))
    config,          \* state of Config.S3_BUCKET_NAME: "absent", "empty" or "set"
    head_bucket,     \* what s3.head_bucket does: "ok", "ClientError", "BotoCoreError"
    processing_mode, \* local variable of pushup
    export_type,     \* local variable of pushup (normalised)
    s3_prefix,       \* local variable of pushup
    image_files,     \* the uploaded files the loop has taken so far, in order
    image,           \* the decoded image of the current iteration
    filename,        \* the stem of the current iteration
    tier,            \* index into sizes of the next tier of the current image
    image_details,   \* local list of the current iteration
    processed_files, \* the report under construction
    zip_filename,    \* local variable of pushup: unbound (empty) until the first tier entry
    zip_file,        \* entries written to the in-memory archive, in order
    s3_objects,      \* put_object calls that completed, in order
    response,        \* what the handler returned (None while running)
    faulted,         \* history: a resize, an encode or a put raised in this request
    rz               \* the resize-only specification: input and result of resize_image

vars == << pc, form, nImages, config, head_bucket, processing_mode, export_type,
           s3_prefix, image_files, image, filename, tier, image_details,
           processed_files, zip_filename, zip_file, s3_objects, response, faulted, rz >>

\* ------------------------------------------------------------------ bounds

MaxBatch == 2
OversizeDim == 50000
MaxSmallDim == 8

\* ------------------------------------------------------------------ text

LowerSeq == << "a","b","c","d","e","f","g","h","i","j","k","l","m",
               "n","o","p","q","r","s","t","u","v","w","x","y","z" >>
UpperSeq == << "A","B","C","D","E","F","G","H","I","J","K","L","M",
               "N","O","P","Q","R","S","T","U","V","W","X","Y","Z" >>
Digits == { "0","1","2","3","4","5","6","7","8","9" }
Range(s) == { s[i] : i \in DOMAIN s }
Whitespace == { " ", "\t", "\n" }
\* \w of Python's re on the characters the model uses
WordChars == Range(LowerSeq) \cup Range(UpperSeq) \cup Digits \cup { "_" }

LowerChar(c) ==
    IF \E i \in DOMAIN UpperSeq : UpperSeq[i] = c
    THEN LowerSeq[CHOOSE i \in DOMAIN UpperSeq : UpperSeq[i] = c]
    ELSE c
Lower(s) == [ i \in DOMAIN s |-> LowerChar(s[i]) ]

RECURSIVE LStrip(_)
LStrip(s) == IF s # << >> /\ Head(s) \in Whitespace THEN LStrip(Tail(s)) ELSE s
RECURSIVE RStrip(_)
RStrip(s) ==
    IF s # << >> /\ s[Len(s)] \in Whitespace THEN RStrip(SubSeq(s, 1, Len(s) - 1)) ELSE s
Strip(s) == RStrip(LStrip(s))

\* index of the last occurrence of c in s, 0 when there is none (str.rfind + 1)
RFind(s, c) ==
    IF \E i \in DOMAIN s : s[i] = c
    THEN CHOOSE i \in DOMAIN s : s[i] = c /\ \A j \in DOMAIN s : s[j] = c => j <= i
    ELSE 0

\* os.path.splitext: the extension starts at the last dot after the last
\* separator, unless only dots precede it in the base name
SplitAt(p) ==
    LET sep == RFind(p, "/")
        dot == RFind(p, ".")
    IN  IF dot > sep /\ \E k \in (sep + 1) .. (dot - 1) : p[k] # "."
        THEN dot
        ELSE Len(p) + 1
SplitextRoot(p) == SubSeq(p, 1, SplitAt(p) - 1)
SplitextExt(p) == SubSeq(p, SplitAt(p), Len(p))

\* posixpath.join(a, b)
PosixJoin(a, b) ==
    IF b # << >> /\ Head(b) = "/" THEN b
    ELSE IF a = << >> \/ a[Len(a)] = "/" THEN a \o b
    ELSE a \o << "/" >> \o b

S_local == << "l","o","c","a","l" >>
S_aws == << "a","w","s" >>
S_png == << "p","n","g" >>
S_webp == << "w","e","b","p" >>
S_jpg == << "j","p","g" >>
S_jpeg == << "j","p","e","g" >>
S_original == << "o","r","i","g","i","n","a","l" >>
S_image == << "i","m","a","g","e" >>


\* ------------------------------------------------------------------ helpers.py

\* validate_s3_prefix: re.match(r'^[\w\-\/]+$', s3_prefix)
validate_s3_prefix(p) ==
    p # << >> /\ \A i \in DOMAIN p : p[i] \in WordChars \cup { "-", "/" }

\* a bucket_exists that swallows the error and answers True
bucket_exists_always(answer) == answer \in { "ok", "ClientError", "BotoCoreError" }

\* bucket_exists: True when head_bucket answers, False on ClientError and
\* NoCredentialsError; any other exception leaves the function
bucket_exists(answer) == answer = "ok"

\* upload_image_to_s3: one put_object per call; `ok` is FALSE when the encode
\* or the put raises, and then nothing is stored and the exception is re-raised
upload_image_to_s3(store, key, type, ok) ==
    IF ok
    THEN Append(store, [ Key |-> key, ContentType |-> S_image \o << "/" >> \o Lower(type) ])
    ELSE store

Abs(n) == IF n < 0 THEN -n ELSE n
Max2(a, b) == IF a >= b THEN a ELSE b

\* a thumbnail without the "never enlarge" test: a small source is scaled up to the box
thumbnail_enlarging(src, box) ==
    LET W == src[1]
        H == src[2]
    IN  IF box[1] * H >= box[2] * W
        THEN << Max2((box[2] * W) \div H, 1), box[2] >>
        ELSE << box[1], Max2((box[1] * H) \div W, 1) >>

\* Image.thumbnail(size): size is the box (x, y), src the image's (width, height)
thumbnail(src, box) ==
    LET W == src[1]
        H == src[2]
        x == box[1]
        y == box[2]
        Ceil(num, den) == (num \div den) + (IF num % den = 0 THEN 0 ELSE 1)
        \* x / y >= aspect: x = round_aspect(y * aspect, |aspect - n / y|)
        fx == (y * W) \div H
        cx == Ceil(y * W, H)
        nx == IF Abs(W * y - fx * H) <= Abs(W * y - cx * H) THEN fx ELSE cx
        \* otherwise: y = round_aspect(x / aspect, 0 if n == 0 else |aspect - x / n|)
        fy == (x * H) \div W
        cy == Ceil(x * H, W)
        ny == IF fy = 0 THEN fy
              ELSE IF Abs(W * fy - x * H) * cy <= Abs(W * cy - x * H) * fy THEN fy ELSE cy
    IN  IF x >= W /\ y >= H THEN src
        ELSE IF x * H >= y * W THEN << Max2(nx, 1), y >>
        ELSE << x, Max2(ny, 1) >>

\* resize_image(image, size, resample_filter): the image, resized in place
resize_image(img, box) == [ img EXCEPT !.size = thumbnail(img.size, box) ]

\* ------------------------------------------------------------------ main.py

\* the sizes dict with the xxl tier left out
sizes_short ==
    << [ name |-> << "t" >>,         box |-> << 100, 100 >> ],
       [ name |-> << "s" >>,         box |-> << 300, 300 >> ],
       [ name |-> << "m" >>,         box |-> << 500, 500 >> ],
       [ name |-> << "l" >>,         box |-> << 800, 800 >> ],
       [ name |-> << "x","l" >>,     box |-> << 1000, 1000 >> ] >>

\* the sizes dict with l and xl entered in the other order
sizes_swapped ==
    << [ name |-> << "t" >>,         box |-> << 100, 100 >> ],
       [ name |-> << "s" >>,         box |-> << 300, 300 >> ],
       [ name |-> << "m" >>,         box |-> << 500, 500 >> ],
       [ name |-> << "x","l" >>,     box |-> << 1000, 1000 >> ],
       [ name |-> << "l" >>,         box |-> << 800, 800 >> ],
       [ name |-> << "x","x","l" >>, box |-> << 1200, 1200 >> ] >>

\* the sizes dict of pushup, in insertion order
sizes ==
    << [ name |-> << "t" >>,         box |-> << 100, 100 >> ],
       [ name |-> << "s" >>,         box |-> << 300, 300 >> ],
       [ name |-> << "m" >>,         box |-> << 500, 500 >> ],
       [ name |-> << "l" >>,         box |-> << 800, 800 >> ],
       [ name |-> << "x","l" >>,     box |-> << 1000, 1000 >> ],
       [ name |-> << "x","x","l" >>, box |-> << 1200, 1200 >> ] >>

ExportTypes == { S_png, S_webp, S_jpg, S_jpeg }
\* the extensions the local branch accepts for the original
OriginalExtensions == { << "." >> \o e : e \in ExportTypes }

\* request.form.get(field, default)
FormGet(field, default) == IF form[field].given THEN form[field].value ELSE default

\* re.match(r'^[\w\-\s]+$', filename)
ValidFilename(stem) ==
    stem # << >> /\ \A i \in DOMAIN stem : stem[i] \in WordChars \cup { "-" } \cup Whitespace

\* Image.open(image_file): the format is what Pillow identified from the bytes
DetectedFormat == << "*" >>
ImageOpen(f) == [ mode |-> "file", format |-> DetectedFormat, size |-> f.size ]
\* Image.convert('RGB'): a new image; its format attribute is None (empty here)
Convert(img) == [ mode |-> "RGB", format |-> << >>, size |-> img.size ]
NoImage == [ mode |-> "none", format |-> << >>, size |-> << 0, 0 >> ]

\* image.save(buffer, format=fmt): without a format Pillow derives it from the
\* target's file name, and a BytesIO has none
SaveSucceeds(fmt, encoderOk) == fmt # << >> /\ encoderOk

NoResponse == [ kind |-> "none" ]
\* an error response that also hands out the report entries gathered so far
Error_withFiles(status, msg, subject) ==
    [ kind |-> "error", status |-> status, error |-> msg, subject |-> subject,
      files |-> processed_files ]

\* jsonify({'error': ...}), status
Error(status, msg, subject) ==
    [ kind |-> "error", status |-> status, error |-> msg, subject |-> subject ]
\* send_file(zip_buffer, ...)
Archive(entries) == [ kind |-> "archive", status |-> 200, archive |-> entries ]
\* jsonify({'message': ..., 'files': processed_files}), 200
Report(files) ==
    [ kind |-> "report", status |-> 200,
      message |-> "Images processed and uploaded to AWS S3.", files |-> files ]

\* a return statement of the handler
Return(resp) == pc' = "done" /\ response' = resp


\* ------------------------------------------------------------------ inputs

Given(v) == [ given |-> TRUE, value |-> v ]
NotGiven == [ given |-> FALSE, value |-> << >> ]

\* Processing-Mode: absent, "AWS", "both"
ModeInputs == { NotGiven, Given(<< "A","W","S" >>), Given(<< "b","o","t","h" >>) }
\* Export-Type: absent, "PNG", "jpg", "gif"
ExportInputs == { NotGiven, Given(<< "P","N","G" >>), Given(S_jpg), Given(<< "g","i","f" >>) }
\* S3_Prefix: absent, "  ", " img/v2 ", "bad prefix"
PrefixInputs ==
    { NotGiven,
      Given(<< " "," " >>),
      Given(<< " ","i","m","g","/","v","2"," " >>),
      Given(<< "b","a","d"," ","p","r","e","f","i","x" >>) }

\* uploaded file names: "cat.png", "dog.JPG", "a/b.png", "pic.gif"
F_cat == << "c","a","t",".","p","n","g" >>
F_dog == << "d","o","g",".","J","P","G" >>
F_sep == << "a","/","b",".","p","n","g" >>
F_gif == << "p","i","c",".","g","i","f" >>
Filenames == { F_cat, F_dog, F_sep, F_gif }
ImageSizes == { << 1000, 500 >>, << 80, 60 >>, << OversizeDim, 10 >> }

\* an uploaded file: its name, whether Pillow can decode its bytes, its pixel size
Uploads ==
    [ filename : Filenames, decodable : { TRUE }, size : ImageSizes ]
    \cup [ filename : Filenames, decodable : { FALSE }, size : { << 0, 0 >> } ]

Idle == [ applied |-> FALSE, size |-> << 0, 0 >>, box |-> << 0, 0 >>, out |-> << 0, 0 >> ]

\* src/config.py defines no S3_BUCKET_NAME ("absent": main.py 102 raises and
\* main.py 269-271 answers 500); "empty" and "set" are the deployments that
\* main.py 103 and 276-282 provide for, where the attribute is set from the
\* environment.
Init ==
    /\ pc = "request"
    /\ form \in [ mode : ModeInputs, export : ExportInputs, prefix : PrefixInputs ]
    /\ nImages \in 0 .. MaxBatch
    /\ config \in { "absent", "empty", "set" }
    /\ head_bucket \in { "ok", "ClientError", "BotoCoreError" }
    /\ processing_mode = << >>
    /\ export_type = << >>
    /\ s3_prefix = << >>
    /\ image_files = << >>
    /\ image = NoImage
    /\ filename = << >>
    /\ tier = 0
    /\ image_details = << >>
    /\ processed_files = << >>
    /\ zip_filename = << >>
    /\ zip_file = << >>
    /\ s3_objects = << >>
    /\ response = NoResponse
    /\ faulted = FALSE
    /\ rz = Idle

\* lines 52-85: the request's files, Processing-Mode and Export-Type
ParseRequest ==
    /\ pc = "request"
    /\ LET mode == Lower(FormGet("mode", S_local))
           raw == Lower(FormGet("export", S_webp))
       IN  IF nImages = 0
           THEN /\ Return(Error(400, "Images not found in the request.", << >>))
                /\ UNCHANGED << processing_mode, export_type >>
           ELSE IF mode \notin { S_local, S_aws }
           THEN /\ Return(Error(400, "Invalid Processing-Mode.", mode))
                /\ processing_mode' = mode
                /\ UNCHANGED export_type
           ELSE IF raw \notin ExportTypes
           THEN /\ Return(Error(400, "Invalid Export-Type.", raw))
                /\ processing_mode' = mode
                /\ export_type' = raw
           ELSE /\ pc' = IF mode = S_aws THEN "precheck" ELSE "open"
                /\ processing_mode' = mode
                /\ export_type' = IF raw = S_jpg THEN S_jpeg ELSE raw
                /\ UNCHANGED response
    /\ UNCHANGED << form, nImages, config, head_bucket, s3_prefix, image_files, image,
                    filename, tier, image_details, processed_files, zip_file,
                    s3_objects, faulted, rz , zip_filename >>

\* lines 87-109 (and 269-271 for what raises): the checks of the aws mode
Precheck ==
    /\ pc = "precheck"
    /\ LET prefix == Strip(FormGet("prefix", << >>))
       IN  /\ s3_prefix' = prefix
           /\ IF prefix = << >>
              THEN Return(Error(400, "S3_Prefix is missing.", << >>))
              ELSE IF ~validate_s3_prefix(prefix)
              THEN Return(Error(400, "Invalid S3_Prefix format.", prefix))
              ELSE IF config = "absent"
              THEN Return(Error(500, "Internal server error.", << >>))
              ELSE IF config = "empty"
              THEN Return(Error(500, "S3 bucket name not found in environment variables.", << >>))
              ELSE IF head_bucket = "BotoCoreError"
              THEN Return(Error(500, "Internal server error.", << >>))
              ELSE IF ~bucket_exists(head_bucket)
              THEN Return(Error(500, "S3 bucket does not exist or is inaccessible.", << >>))
              ELSE pc' = "open" /\ UNCHANGED response
    /\ UNCHANGED << form, nImages, config, head_bucket, processing_mode, export_type,
                    image_files, image, filename, tier, image_details, processed_files,
                    zip_file, s3_objects, faulted, rz , zip_filename >>

\* lines 129-155: the next file of the batch is opened, verified and named
OpenImage ==
    /\ pc = "open"
    /\ Len(image_files) < nImages
    /\ \E f \in Uploads :
        LET stem == SplitextRoot(f.filename)
        IN  /\ image_files' = Append(image_files, f)
            /\ IF ~f.decodable
               THEN /\ Return(Error(400, "Invalid image file", f.filename))
                    /\ UNCHANGED << image, filename, image_details >>
               ELSE IF ~ValidFilename(stem)
               THEN /\ Return(Error(400, "Invalid filename", stem))
                    /\ image' = Convert(ImageOpen(f))
                    /\ filename' = stem
                    /\ UNCHANGED image_details
               ELSE /\ pc' = "original"
                    /\ image' = Convert(ImageOpen(f))
                    /\ filename' = stem
                    /\ image_details' = << >>
                    /\ UNCHANGED response
    /\ UNCHANGED << form, nImages, config, head_bucket, processing_mode, export_type,
                    s3_prefix, tier, processed_files, zip_file, s3_objects, faulted, rz , zip_filename >>


\* the file of the current iteration
CurrentFile == image_files[Len(image_files)]

\* lines 157-193: the original is written to the sink of the mode
SaveOriginal ==
    /\ pc = "original"
    /\ LET original_extension == Lower(SplitextExt(CurrentFile.filename))
           leaf == S_original \o original_extension
       IN  \E ok \in BOOLEAN :
            IF processing_mode = S_local
            THEN IF original_extension \notin OriginalExtensions
                 THEN /\ Return(Error(400, "Unsupported original image format", original_extension))
                      /\ UNCHANGED << zip_file, s3_objects, tier, faulted >>
                 ELSE IF SaveSucceeds(image.format, ok)
                 THEN /\ zip_file' = Append(zip_file, filename \o << "/" >> \o leaf)
                      /\ pc' = "tiers"
                      /\ tier' = 1
                      /\ UNCHANGED << response, s3_objects, faulted >>
                 ELSE /\ Return(Error(500, "Failed to save original image", filename))
                      /\ faulted' = (faulted \/ ~ok)
                      /\ UNCHANGED << zip_file, s3_objects, tier >>
            ELSE /\ s3_objects' = upload_image_to_s3(s3_objects,
                                      PosixJoin(PosixJoin(s3_prefix, filename), leaf),
                                      export_type, ok)
                 /\ faulted' = (faulted \/ ~ok)
                 /\ IF ok
                    THEN pc' = "tiers" /\ tier' = 1 /\ UNCHANGED response
                    ELSE /\ Return(Error(500, "Failed to upload original image to S3", filename))
                         /\ UNCHANGED tier
                 /\ UNCHANGED zip_file
    /\ UNCHANGED << form, nImages, config, head_bucket, processing_mode, export_type,
                    s3_prefix, image_files, image, filename, image_details,
                    processed_files, rz , zip_filename >>

\* a tier iteration whose upload handler logs the exception and goes on
TierStep_swallow(resizeOk, writeOk) ==
    IF ~resizeOk THEN "resize_error" ELSE "written"

\* lines 197-235: which of the try blocks of one tier iteration raised
TierStep(resizeOk, writeOk) ==
    IF ~resizeOk THEN "resize_error"
    ELSE IF ~writeOk THEN "write_error"
    ELSE "written"

\* lines 196-238: one iteration of the loop over sizes
ProcessTier ==
    /\ pc = "tiers"
    /\ tier \in DOMAIN sizes
    /\ \E resizeOk \in BOOLEAN, writeOk \in BOOLEAN :
        LET size_name == sizes[tier].name
            resized_image == resize_image(image, sizes[tier].box)
            entry == filename \o << "/" >> \o size_name \o << "." >> \o export_type
            image_info == [ filename |-> entry, size_name |-> size_name,
                            size |-> resized_image.size ]
            local == processing_mode = S_local
            wrote == IF local THEN SaveSucceeds(export_type, writeOk) ELSE writeOk
            outcome == TierStep(resizeOk, wrote)
        IN  /\ faulted' = (faulted \/ ~resizeOk \/ ~writeOk)
            /\ IF outcome = "resize_error"
               THEN /\ Return(Error(500, "Failed to resize image", filename))
                    /\ UNCHANGED << zip_file, zip_filename, s3_objects, image_details, tier >>
               ELSE /\ zip_file' = IF local /\ wrote THEN Append(zip_file, entry) ELSE zip_file
                    /\ zip_filename' = IF local /\ wrote THEN entry ELSE zip_filename
                    /\ s3_objects' =
                         IF local THEN s3_objects
                         ELSE upload_image_to_s3(s3_objects,
                                  PosixJoin(PosixJoin(s3_prefix, filename),
                                            size_name \o << "." >> \o export_type),
                                  export_type, wrote)
                    /\ IF outcome = "write_error"
                       THEN /\ Return(
                                   IF ~local
                                   THEN Error(500, "Failed to upload resized image to S3", entry)
                                   \* save raised before line 220 bound zip_filename: the
                                   \* handler reads the value of the previous iteration,
                                   \* and raises itself when there is none
                                   ELSE IF zip_filename = << >>
                                   THEN Error(500, "Internal server error.", << >>)
                                   ELSE Error(500, "Failed to save resized image", zip_filename))
                            /\ UNCHANGED << image_details, tier >>
                       ELSE /\ image_details' = Append(image_details, image_info)
                            /\ tier' = tier + 1
                            /\ pc' = IF tier = Len(sizes) THEN "append" ELSE "tiers"
                            /\ UNCHANGED response
    /\ UNCHANGED << form, nImages, config, head_bucket, processing_mode, export_type,
                    s3_prefix, image_files, image, filename, processed_files, rz >>

\* lines 240-245: the image's entry of the report
AppendProcessed ==
    /\ pc = "append"
    /\ processed_files' = Append(processed_files,
           [ filename |-> CurrentFile.filename,
             original_size |-> image.size,
             processed_images |-> image_details ])
    /\ pc' = "open"
    /\ UNCHANGED << form, nImages, config, head_bucket, processing_mode, export_type,
                    s3_prefix, image_files, image, filename, tier, image_details,
                    zip_file, s3_objects, response, faulted, rz , zip_filename >>

\* lines 247-267: the archive or the report is returned
Respond ==
    /\ pc = "open"
    /\ Len(image_files) = nImages
    /\ \E ok \in BOOLEAN :
        IF processing_mode = S_local
        THEN /\ Return(IF ok THEN Archive(zip_file)
                       ELSE Error(500, "Failed to create ZIP file.", << >>))
             /\ faulted' = (faulted \/ ~ok)
        ELSE /\ Return(Report(processed_files))
             /\ UNCHANGED faulted
    /\ UNCHANGED << form, nImages, config, head_bucket, processing_mode, export_type,
                    s3_prefix, image_files, image, filename, tier, image_details,
                    processed_files, zip_file, s3_objects, rz , zip_filename >>

Next ==
    \/ ParseRequest
    \/ Precheck
    \/ OpenImage
    \/ SaveOriginal
    \/ ProcessTier
    \/ AppendProcessed
    \/ Respond

Spec == Init /\ [][Next]_vars

\* ------------------------------------------------------------------ resize_image alone

DimSamples == { 99, 100, 101, 150, 299, 300, 301, 500, 799, 800, 1000, 1199, 1200,
                1201, 1333, 2400, OversizeDim }
Dims == (1 .. MaxSmallDim) \cup DimSamples

InitResize ==
    /\ pc = "resize"
    /\ form = [ mode |-> NotGiven, export |-> NotGiven, prefix |-> NotGiven ]
    /\ nImages = 0
    /\ config = "absent"
    /\ head_bucket = "ok"
    /\ processing_mode = << >>
    /\ export_type = << >>
    /\ s3_prefix = << >>
    /\ image_files = << >>
    /\ image = NoImage
    /\ filename = << >>
    /\ tier = 0
    /\ image_details = << >>
    /\ processed_files = << >>
    /\ zip_filename = << >>
    /\ zip_file = << >>
    /\ s3_objects = << >>
    /\ response = NoResponse
    /\ faulted = FALSE
    /\ rz \in [ applied : { FALSE }, size : Dims \X Dims,
                box : { sizes[i].box : i \in DOMAIN sizes }, out : { << 0, 0 >> } ]

\* resize_image(image.copy(), size, resample_filter) on one source and one box
ResizeOnly ==
    /\ pc = "resize"
    /\ ~rz.applied
    /\ rz' = [ rz EXCEPT !.applied = TRUE,
                         !.out = resize_image([ mode |-> "RGB", format |-> << >>,
                                                size |-> rz.size ], rz.box).size ]
    /\ UNCHANGED << pc, form, nImages, config, head_bucket, processing_mode, export_type,
                    s3_prefix, image_files, image, filename, tier, image_details,
                    processed_files, zip_file, s3_objects, response, faulted , zip_filename >>

NextResize == ResizeOnly

SpecResize == InitResize /\ [][NextResize]_vars


\* ------------------------------------------------------------------ vocabulary of the properties

IsPrefix(a, b) == Len(a) <= Len(b) /\ SubSeq(b, 1, Len(a)) = a

\* the tiers in declaration order, as the specification lists them
TierNames == << << "t" >>, << "s" >>, << "m" >>, << "l" >>, << "x","l" >>, << "x","x","l" >> >>
TierCount == Len(TierNames)
WritesPerImage == TierCount + 1

\* the export format the request declares, jpg normalised to jpeg
DeclaredExport ==
    LET raw == Lower(FormGet("export", S_webp))
    IN  IF raw = S_jpg THEN S_jpeg ELSE raw
\* the key prefix the request declares
DeclaredPrefix == Strip(FormGet("prefix", << >>))

StemOf(f) == SplitextRoot(f.filename)
ExtOf(f) == Lower(SplitextExt(f.filename))
StemSafe(f) == ValidFilename(StemOf(f))
ExtSupported(f) == ExtOf(f) \in { << ".","p","n","g" >>, << ".","w","e","b","p" >>,
                                  << ".","j","p","g" >>, << ".","j","p","e","g" >> }
\* an image that fails validation: undecodable, unsafe stem or unsupported extension
InvalidUpload(f) == ~f.decodable \/ ~StemSafe(f) \/ ~ExtSupported(f)
Oversized(f) == f.size[1] >= OversizeDim \/ f.size[2] >= OversizeDim

\* <stem>/original.<ext>, <stem>/t.<fmt>, ..., <stem>/xxl.<fmt>
LayoutNames(f) ==
    [ k \in 1 .. WritesPerImage |->
        StemOf(f) \o << "/" >> \o
        (IF k = 1 THEN S_original \o ExtOf(f)
         ELSE TierNames[k - 1] \o << "." >> \o DeclaredExport) ]
\* the name of the k-th write of the batch: images in the order of submission,
\* and for each image the original and then the tiers in declaration order
NthName(k) ==
    LayoutNames(image_files[((k - 1) \div WritesPerImage) + 1])[((k - 1) % WritesPerImage) + 1]
\* names is the layout of the batch, or (partial) a leading part of it
FollowsLayout(names, partial) ==
    /\ IF partial THEN Len(names) <= WritesPerImage * Len(image_files)
       ELSE Len(names) = WritesPerImage * Len(image_files)
    /\ \A k \in DOMAIN names : names[k] = NthName(k)
\* <prefix>/<stem>/<leaf>
RemoteKey(name) == DeclaredPrefix \o << "/" >> \o name
PutKeys == [ k \in DOMAIN s3_objects |-> s3_objects[k].Key ]
\* the keys put are <prefix>/<name> for the layout of the batch, or a leading part of it
PutsFollowLayout(partial) ==
    /\ IF partial THEN Len(s3_objects) <= WritesPerImage * Len(image_files)
       ELSE Len(s3_objects) = WritesPerImage * Len(image_files)
    /\ \A k \in DOMAIN s3_objects : s3_objects[k].Key = RemoteKey(NthName(k))

Succeeded == response.kind \in { "archive", "report" }
Failed == response.kind = "error"
InLocal == pc # "request" /\ processing_mode = S_local
InAws == pc # "request" /\ processing_mode = S_aws
PrecheckInputsOk ==
    /\ DeclaredPrefix # << >>
    /\ \A i \in DOMAIN DeclaredPrefix : DeclaredPrefix[i] \in WordChars \cup { "-", "/" }
    /\ config = "set"
    /\ head_bucket = "ok"

\* ------------------------------------------------------------------ properties

\* C1: if any image of the batch fails validation (undecodable, unsafe stem,
\* unsupported original extension), the request ends in a validation error and
\* no archive entry and no remote put was issued for any image of the batch.
C1_InvalidImageZeroWrites ==
    (pc = "done" /\ ~faulted /\ \E i \in DOMAIN image_files : InvalidUpload(image_files[i]))
        => /\ Failed /\ response.status = 400
           /\ zip_filename = << >>
    /\ zip_file = << >>
           /\ s3_objects = << >>

\* C2: in aws mode a put is issued only after the prefix was found non-empty and
\* well-formed, the bucket name configured and the bucket existing; when one of
\* these checks fails the request ends in an error, with no put and no image decoded.
C2_PutOnlyAfterPrecheck ==
    /\ s3_objects # << >> => InAws /\ PrecheckInputsOk /\ s3_prefix = DeclaredPrefix
    /\ (InAws /\ pc # "precheck" /\ ~PrecheckInputsOk)
          => pc = "done" /\ Failed /\ s3_objects = << >> /\ image_files = << >>
C2_Witness == Len(s3_objects) >= WritesPerImage /\ InAws /\ PrecheckInputsOk

\* C3: a success deliverable is returned only when every image of the batch was
\* validated and had its original and all six tiers written; when a step fails
\* the response is an error that carries neither the archive nor report entries.
C3_SuccessOnlyWhenAllWritten ==
    /\ Succeeded =>
          /\ nImages >= 1 /\ Len(image_files) = nImages
          /\ \A i \in DOMAIN image_files : image_files[i].decodable /\ StemSafe(image_files[i])
          /\ ~faulted
          /\ IF InLocal
             THEN response.kind = "archive" /\ FollowsLayout(response.archive, FALSE)
                  /\ zip_file = response.archive
             ELSE response.kind = "report" /\ PutsFollowLayout(FALSE)
                  /\ Len(response.files) = nImages
    /\ (pc = "done" /\ ~Succeeded) =>
          /\ Failed
          /\ DOMAIN response = { "kind", "status", "error", "subject" }
    /\ (pc = "done" /\ faulted) => Failed
C3_Witness ==
    /\ Succeeded /\ nImages = MaxBatch /\ Len(s3_objects) = WritesPerImage * MaxBatch

\* C4: in local mode a request for N valid images in which no step raises
\* yields the archive, with exactly 7*N entries named per the layout.
C4_LocalArchiveSevenPerImage ==
    (pc = "done" /\ InLocal /\ ~faulted
       /\ DeclaredExport \in { S_png, S_webp, S_jpeg }
       /\ image_files # << >>
       /\ \A i \in DOMAIN image_files : ~InvalidUpload(image_files[i]))
        => /\ response.kind = "archive"
           /\ Len(response.archive) = WritesPerImage * nImages
           /\ FollowsLayout(response.archive, FALSE)


\* the texts of a report entry that name an object the request has put, taken
\* as a key or relative to the key prefix
EntryTexts(e) ==
    { e.filename } \cup { e.processed_images[k].filename : k \in DOMAIN e.processed_images }
NamesPutObject(text) ==
    \E k \in DOMAIN s3_objects : s3_objects[k].Key \in { text, RemoteKey(text) }
EntryLocations(e) == { x \in EntryTexts(e) : NamesPutObject(x) }

C6_OrderPreserved ==
    /\ response.kind = "report" =>
          \A i \in DOMAIN response.files :
              /\ response.files[i].filename = image_files[i].filename
              /\ [ k \in DOMAIN response.files[i].processed_images |->
                     response.files[i].processed_images[k].size_name ] = TierNames
    /\ InAws => PutsFollowLayout(TRUE)
    /\ InLocal => FollowsLayout(zip_file, TRUE)
    /\ [ k \in DOMAIN image_details |-> image_details[k].size_name ]
          = SubSeq(TierNames, 1, Len(image_details))
C6_Witness ==
    /\ response.kind = "report"
    /\ Len(response.files) = MaxBatch
    /\ response.files[1].filename # response.files[MaxBatch].filename

\* C7: in aws mode a resize or a put that fails ends the request at once with an
\* error; no put follows it, and the puts completed before it stay in the store.
C7_AbortWithoutRollback ==
    [][ processing_mode' = S_aws =>
          /\ IsPrefix(s3_objects, s3_objects')
          /\ faulted => s3_objects' = s3_objects
          /\ faulted' => /\ pc' = "done"
                         /\ response'.kind = "error" /\ response'.status = 500
          /\ (faulted' /\ ~faulted) => s3_objects' = s3_objects ]_vars
C7_Witness == InAws /\ faulted /\ pc = "done" /\ Len(s3_objects) > WritesPerImage

\* C8: in local and in aws mode alike, an image whose extension is outside
\* png, webp, jpg, jpeg is rejected as unsupported and its original is not written.
C8_UnsupportedOriginalRejected ==
    \A i \in DOMAIN image_files :
        LET f == image_files[i]
        IN  (f.decodable /\ StemSafe(f) /\ ~ExtSupported(f)) =>
              /\ LayoutNames(f)[1] \notin Range(zip_file)
              /\ RemoteKey(LayoutNames(f)[1]) \notin Range(PutKeys)
              /\ (pc = "done" /\ ~faulted) => Failed /\ response.status = 400

\* C9: the size resize_image produces fits the tier box and never exceeds the
\* source in width or height; 1000x500 in the 300 box gives 300x150.
C9_FitsBoxNeverUpscaled ==
    rz.applied =>
        /\ rz.out[1] >= 1 /\ rz.out[2] >= 1
        /\ Max2(rz.out[1], rz.out[2]) <= Max2(rz.box[1], rz.box[2])
        /\ rz.out[1] <= rz.size[1]
        /\ rz.out[2] <= rz.size[2]
        /\ (rz.size = << 1000, 500 >> /\ rz.box = << 300, 300 >>) => rz.out = << 300, 150 >>
C9_Witness ==
    rz.applied /\ rz.size = << 1000, 500 >> /\ rz.box = << 300, 300 >> /\ rz.out = << 300, 150 >>

\* C10: an image whose width or height exceeds the maximum gets no derivative,
\* produced or written, and its request is reported as failed.
C10_OversizedInputRejected ==
    \A i \in DOMAIN image_files :
        LET f == image_files[i]
        IN  (f.decodable /\ StemSafe(f) /\ Oversized(f)) =>
              /\ i = Len(image_files)
              /\ image_details = << >>
              /\ \A k \in 2 .. WritesPerImage :
                    /\ LayoutNames(f)[k] \notin Range(zip_file)
                    /\ RemoteKey(LayoutNames(f)[k]) \notin Range(PutKeys)
              /\ pc = "done" => Failed

====
